---- MODULE Spec2Model ----
(***************************************************************************)
(* State-machine model of the OAuth layer of mcp_server:                   *)
(*   - config.py        Settings                                           *)
(*   - oauth_handler.py OAuthHandler (shared instance of server.py:27)     *)
(*   - server.py        oauth_sessions, cleanup_expired_sessions and the   *)
(*                      /oauth/authorize and /oauth/callback routes        *)
(*                                                                         *)
(* Python values are modelled as strings; None is the marker string None.  *)
(* Requests interleave cooperatively: a handler runs atomically up to an   *)
(* `await` of an upstream call, so every handler is one action per         *)
(* await-free segment.                                                     *)
(*                                                                         *)
(* Two specifications are given.  Spec is the HTTP server: its steps are   *)
(* the routes of server.py.  HandlerSpec is the OAuthHandler object driven *)
(* directly through its public methods (as tests/test_oauth_handler.py     *)
(* does); refresh_access_token has no caller inside server.py.             *)
(***************************************************************************)
EXTENDS Integers, Sequences, FiniteSets, TLC

VARIABLES
    settings,            \* config.settings, fixed at import time
    now,                 \* wall clock read by datetime.now(), in minutes
    draws,               \* number of values drawn from secrets.token_urlsafe pairs
    oauth_sessions,      \* server.oauth_sessions: state -> session dict
    access_token,        \* oauth_handler.access_token
    refresh_token,       \* oauth_handler.refresh_token
    code_verifier_attr,  \* oauth_handler._code_verifier
    pending_exchanges,   \* exchange_code_for_token calls suspended in fetch_token
    pending_refreshes,   \* refresh_access_token calls suspended in refresh_token
    response,            \* the most recent HTTP response / method result
    authorization_urls,  \* history: state -> query parameters of the redirect issued
    obtained,            \* history: state -> number of callbacks whose pop returned the session
    tool_call_counts,    \* http_endpoints._tool_call_counts
    api_requests         \* GitHubAPIClient calls suspended in their HTTP request

vars == <<settings, now, draws, oauth_sessions, access_token, refresh_token,
          code_verifier_attr, pending_exchanges, pending_refreshes, response,
          authorization_urls, obtained, tool_call_counts, api_requests>>

\* The state of api_client.py and http_endpoints.py
client_vars == <<tool_call_counts, api_requests>>

\* The state of server.py and its OAuth handler, the last response apart
server_vars == <<settings, now, draws, oauth_sessions, access_token, refresh_token,
                 code_verifier_attr, pending_exchanges, pending_refreshes,
                 authorization_urls, obtained>>

-----------------------------------------------------------------------------
(* Bounds of the model                                                     *)

MaxTime == 11          \* the clock stops advancing here
MaxAuth == 2           \* /oauth/authorize requests served
MaxPending == 2        \* upstream calls that may be in flight together
MaxCalls == 3          \* increment_tool_call calls made

-----------------------------------------------------------------------------
(* Python values                                                           *)

None == "<None>"
Absent == "<absent>"   \* a key missing from a dict

\* bool(v) for an optional string
Truthy(v) == v # None /\ v # ""

\* dict.get(key, default) on a field that may be missing
Get(v, default) == IF v = Absent THEN default ELSE v

\* s[-n:]
Suffix(s, n) == IF Len(s) <= n THEN s ELSE SubSeq(s, Len(s) - n + 1, Len(s))

\* s.split(",")
RECURSIVE SplitFrom(_, _, _)
SplitFrom(s, start, i) ==
    IF i > Len(s) THEN <<SubSeq(s, start, Len(s))>>
    ELSE IF SubSeq(s, i, i) = ","
         THEN <<SubSeq(s, start, i - 1)>> \o SplitFrom(s, i + 1, i + 1)
         ELSE SplitFrom(s, start, i + 1)

SplitComma(s) == SplitFrom(s, 1, 1)

\* s.strip(), for blanks
RECURSIVE LStrip(_)
LStrip(s) == IF Len(s) > 0 /\ SubSeq(s, 1, 1) = " " THEN LStrip(SubSeq(s, 2, Len(s))) ELSE s

RECURSIVE RStrip(_)
RStrip(s) ==
    IF Len(s) > 0 /\ SubSeq(s, Len(s), Len(s)) = " " THEN RStrip(SubSeq(s, 1, Len(s) - 1)) ELSE s

Strip(s) == RStrip(LStrip(s))

\* [x.strip() for x in s.split(",") if x.strip()]
RECURSIVE StripNonEmpty(_)
StripNonEmpty(parts) ==
    IF parts = <<>> THEN <<>>
    ELSE IF Strip(Head(parts)) = "" THEN StripNonEmpty(Tail(parts))
         ELSE <<Strip(Head(parts))>> \o StripNonEmpty(Tail(parts))

\* " ".join(parts)
RECURSIVE JoinScopes(_)
JoinScopes(parts) ==
    IF parts = <<>> THEN ""
    ELSE IF Len(parts) = 1 THEN Head(parts)
         ELSE Head(parts) \o " " \o JoinScopes(Tail(parts))

-----------------------------------------------------------------------------
(* config.py                                                               *)

DefaultSettings ==
    [ oauth_client_id         |-> "",
      oauth_client_secret     |-> "",
      oauth_authorization_url |-> "https://github.com/login/oauth/authorize",
      oauth_token_url         |-> "https://github.com/login/oauth/access_token",
      oauth_scopes            |-> "read:user",
      oauth_issuer            |-> "https://github.com",
      oauth_grant_types_supported            |-> "authorization_code,refresh_token",
      oauth_code_challenge_methods_supported |-> "S256",
      oauth_response_types_supported         |-> "code",
      oauth_token_endpoint_auth_methods      |-> "client_secret_post,client_secret_basic",
      api_base_url            |-> "https://api.github.com",
      api_timeout             |-> 30,
      server_name             |-> "mcp-oauth-server",
      server_version          |-> "0.1.0",
      oauth_redirect_uri      |-> "http://localhost:8000/oauth/callback" ]

\* The environments the server is started in: the defaults, and a deployment
\* that sets the credentials, OAUTH_SCOPES and OAUTH_REDIRECT_URI.
SettingsChoices ==
    { DefaultSettings,
      [DefaultSettings EXCEPT !.oauth_client_id = "client_id",
                              !.oauth_client_secret = "client_secret",
                              !.oauth_scopes = "read:user, repo",
                              !.oauth_redirect_uri = "http://localhost:8080/callback"] }

\* Mutant: the scopes setting is taken as one entry.
oauth_scopes_list_unsplit(oauth_scopes) == <<oauth_scopes>>

\* Settings.oauth_scopes_list
oauth_scopes_list(oauth_scopes) == StripNonEmpty(SplitComma(oauth_scopes))

\* Settings.get_authorization_metadata
get_authorization_metadata ==
    [ issuer                 |-> settings.oauth_issuer,
      authorization_endpoint |-> settings.oauth_authorization_url,
      token_endpoint         |-> settings.oauth_token_url,
      scopes_supported       |-> oauth_scopes_list(settings.oauth_scopes),
      response_types_supported |->
          StripNonEmpty(SplitComma(settings.oauth_response_types_supported)),
      grant_types_supported |->
          StripNonEmpty(SplitComma(settings.oauth_grant_types_supported)),
      code_challenge_methods_supported |->
          StripNonEmpty(SplitComma(settings.oauth_code_challenge_methods_supported)),
      token_endpoint_auth_methods_supported |->
          StripNonEmpty(SplitComma(settings.oauth_token_endpoint_auth_methods)) ]

\* Settings.is_oauth_configured
is_oauth_configured == settings.oauth_client_id # "" /\ settings.oauth_client_secret # ""

-----------------------------------------------------------------------------
(* oauth_handler.py                                                        *)

\* secrets.token_urlsafe: the i-th state and the i-th verifier drawn.  The
\* values are 32 and 64 random bytes; a repeated value is not modelled.
StateTokens == <<"state_1", "state_2", "state_3", "state_4">>
VerifierTokens == <<"verifier_1", "verifier_2", "verifier_3", "verifier_4">>

\* authlib create_s256_code_challenge, as a symbolic digest
create_s256_code_challenge(verifier) == "S256(" \o verifier \o ")"

\* Mutants: the challenge is the verifier itself; every call returns the
\* pair of the first call.
generate_pkce_pair_plain(i) ==
    [ code_verifier |-> VerifierTokens[i], code_challenge |-> VerifierTokens[i] ]
generate_pkce_pair_reused(i) ==
    [ code_verifier  |-> VerifierTokens[1],
      code_challenge |-> create_s256_code_challenge(VerifierTokens[1]) ]

\* generate_pkce_pair(): the i-th call
generate_pkce_pair(i) ==
    [ code_verifier  |-> VerifierTokens[i],
      code_challenge |-> create_s256_code_challenge(VerifierTokens[i]) ]

AuthorizationRedirectUri == "http://localhost:8080/callback"

\* get_authorization_url(state=None): the i-th call.  The result is the
\* tuple (url, state, code_verifier); the url is kept as its endpoint and
\* its query parameters instead of the urlencoded text.
get_authorization_url(i) ==
    LET state == StateTokens[i]
        pkce  == generate_pkce_pair(i)
    IN  [ url |-> [ endpoint              |-> settings.oauth_authorization_url,
                    client_id             |-> settings.oauth_client_id,
                    response_type         |-> "code",
                    redirect_uri          |-> AuthorizationRedirectUri,
                    scope                 |-> JoinScopes(oauth_scopes_list(settings.oauth_scopes)),
                    state                 |-> state,
                    code_challenge        |-> pkce.code_challenge,
                    code_challenge_method |-> "S256" ],
          state         |-> state,
          code_verifier |-> pkce.code_verifier ]

\* Mutant: the caller's state is ignored and a new one is always generated.
get_authorization_url_generated(state, i) == get_authorization_url(i)

\* get_authorization_url(state): lines 64-65 generate the state only when the
\* caller gave none; the rest of the call is the same.
get_authorization_url_state(state, i) ==
    IF state = None
    THEN get_authorization_url(i)
    ELSE [ get_authorization_url(i) EXCEPT !.url.state = state, !.state = state ]

\* self.resource_uri of the shared handler OAuthHandler()
resource_uri == settings.api_base_url

\* Results of AsyncOAuth2Client.fetch_token / refresh_token: the token dict of
\* a successful call, or the exception raised.  str(e) is the field text;
\* upstream tells an error reported by the authorization server (authlib
\* OAuthError) from one raised inside the process (httpx transport errors).
AccessTokenValues == {Absent, "tok_123", "gho_16C7e42F2"}
RefreshTokenValues == {Absent, "ref_456"}

TokenResponses ==
    [ access_token  : AccessTokenValues,
      refresh_token : RefreshTokenValues,
      token_type    : {"bearer"},
      scope         : {"read:user"} ]

UpstreamRejection ==
    [ type |-> "OAuthError", upstream |-> TRUE,
      text |-> "bad_verification_code: The code passed is incorrect or expired." ]
ConnectError ==
    [ type |-> "ConnectError", upstream |-> FALSE,
      text |-> "All connection attempts failed" ]
ReadTimeout ==
    [ type |-> "ReadTimeout", upstream |-> FALSE,
      text |-> "The read operation timed out" ]

TokenEndpointExceptions == {UpstreamRejection, ConnectError, ReadTimeout}

\* exchange_code_for_token up to its await: the request handed to fetch_token
ExchangeRequest(caller, state, code, code_verifier, redirect_uri) ==
    [ caller        |-> caller,
      state         |-> state,
      grant_type    |-> "authorization_code",
      code          |-> code,
      code_verifier |-> code_verifier,
      redirect_uri  |-> redirect_uri,
      resource      |-> resource_uri ]

\* Mutant: the exchange keeps the access token and drops the refresh token.
ExchangeStoresRefresh_dropped(token) == None

\* Mutant: an exchange whose response has no refresh token keeps the held one.
ExchangeStoresRefresh_kept(token) == Get(token.refresh_token, refresh_token)

\* Mutant: an access token already held is not replaced by a later exchange.
ExchangeStoresAccess_first(token) ==
    IF access_token # None THEN access_token ELSE Get(token.access_token, None)

\* exchange_code_for_token after fetch_token returned `token`
ExchangeStoresAccess(token) == Get(token.access_token, None)
ExchangeStoresRefresh(token) == Get(token.refresh_token, None)

\* refresh_access_token up to its await: the request handed to refresh_token
RefreshRequest(held) ==
    [ grant_type    |-> "refresh_token",
      refresh_token |-> held,
      resource      |-> resource_uri ]

\* Mutant: a refresh response without refresh_token clears the held one.
RefreshStoresRefresh_cleared(token, held) == Get(token.refresh_token, None)

\* refresh_access_token after refresh_token returned `token`
RefreshStoresAccess(token) == Get(token.access_token, None)
RefreshStoresRefresh(token, held) == Get(token.refresh_token, held)

\* is_authenticated(), for a handler holding `held`
is_authenticated(held) == held # None

\* The dict get_auth_headers() returns for a handler holding `held`
AuthHeaders(held) == [ Authorization |-> "Bearer " \o held ]

\* get_authorization_error_response()
get_authorization_error_response ==
    [ code    |-> -32001,
      message |-> "Authentication required",
      data    |-> [ type                  |-> "oauth2",
                    grant_type            |-> "authorization_code",
                    authorization_url     |-> settings.oauth_authorization_url,
                    token_url             |-> settings.oauth_token_url,
                    scopes                |-> oauth_scopes_list(settings.oauth_scopes),
                    code_challenge_method |-> "S256",
                    resource              |-> resource_uri ] ]

-----------------------------------------------------------------------------
(* server.py: session store                                                *)

SessionTTL == 10       \* timedelta(minutes=10)

EmptyMap == [k \in {} |-> None]

\* Mutants of the expiry test: one that never expires a session, one that
\* compares the creation time.
IsExpired_never(data, t) == FALSE
IsExpired_created(data, t) == data.created_at < t

\* data.get("expires_at", now) < now
IsExpired(data, t) == data.expires_at < t

\* cleanup_expired_sessions: the `expired` list, and the store it leaves
ExpiredStates(sessions, t) == {k \in DOMAIN sessions : IsExpired(sessions[k], t)}

\* Mutant: the sweep is skipped.
cleanup_expired_sessions_skipped(sessions, t) == sessions

cleanup_expired_sessions(sessions, t) ==
    [k \in DOMAIN sessions \ ExpiredStates(sessions, t) |-> sessions[k]]

\* oauth_sessions.pop(state, None): whether a session came back, and the dict left
PopFound(sessions, state) == state \in DOMAIN sessions
\* Mutant: the session is read with get() and stays in the dict.
PopLeaves_get(sessions, state) == sessions
PopLeaves(sessions, state) == [k \in DOMAIN sessions \ {state} |-> sessions[k]]

\* Mutant: the session is stored already expired.
NewSession_expired(code_verifier, t) ==
    [ code_verifier |-> code_verifier, created_at |-> t, expires_at |-> t - 1 ]

\* oauth_sessions[state] = {...}
NewSession(code_verifier, t) ==
    [ code_verifier |-> code_verifier,
      created_at    |-> t,
      expires_at    |-> t + SessionTTL ]

StoreSession(sessions, state, data) ==
    [k \in DOMAIN sessions \cup {state} |-> IF k = state THEN data ELSE sessions[k]]

-----------------------------------------------------------------------------
(* server.py: responses                                                    *)

NoUrl ==
    [ endpoint |-> "", client_id |-> "", response_type |-> "", redirect_uri |-> "",
      scope |-> "", state |-> "", code_challenge |-> "", code_challenge_method |-> "" ]

\* A response: the status, the page (its <h1> and the paragraph under the
\* error box tell the pages apart) and the values interpolated into it.
\* `logged` is the value interpolated into the handler's log line.
Page(status, heading, advice, shown) ==
    [ status |-> status, heading |-> heading, advice |-> advice, shown |-> shown,
      token_type |-> "", scope |-> "", location |-> NoUrl, logged |-> "" ]

NoResponse == Page(0, "", "", "")

\* lines 280-284
RedirectResponse(url) == [Page(307, "", "", "") EXCEPT !.location = url, !.logged = url.state]

\* Mutant: the error branch answers with the page of the session branch.
OAuthErrorPage_session(error) ==
    Page(400, "OAuth Authorization Failed",
         "Your OAuth session has expired or is invalid. Please start the authorization flow again.",
         "Invalid or expired session")

\* lines 302-323
OAuthErrorPage(error) ==
    Page(400, "OAuth Authorization Failed",
         "Please try again or contact support if the problem persists.", error)

\* lines 325-346
MissingParamsPage ==
    Page(400, "OAuth Authorization Failed",
         "The OAuth callback was incomplete. Please try again.",
         "Missing authorization code or state parameter")

\* Mutant: an unknown state is answered with 404.
InvalidSessionPage_found(state) ==
    [ Page(404, "OAuth Authorization Failed",
           "Your OAuth session has expired or is invalid. Please start the authorization flow again.",
           "Invalid or expired session")
      EXCEPT !.logged = state ]

\* lines 351-372
InvalidSessionPage(state) ==
    [ Page(400, "OAuth Authorization Failed",
           "Your OAuth session has expired or is invalid. Please start the authorization flow again.",
           "Invalid or expired session")
      EXCEPT !.logged = state ]

\* "***" + (access_token[-8:] if access_token else "N/A")
MaskedToken(token) == "***" \o (IF Truthy(token) THEN Suffix(token, 8) ELSE "N/A")

\* lines 386-417
SuccessPage(held_access_token, token) ==
    [ Page(200, "OAuth Authorization Successful",
           "You can now close this window and use the MCP server with authentication.",
           MaskedToken(held_access_token))
      EXCEPT !.token_type = Get(token.token_type, "bearer"),
             !.scope = Get(token.scope, "N/A") ]

\* JSONResponse(content)
JSONResponse(content) == Page(200, "", "", "") @@ [ content |-> content ]

\* str(e)
ExceptionText(e) == e.text

\* Mutant: the exception is swallowed and the success page is rendered.
ExchangeFailedPage_success(e) == SuccessPage(None, [token_type |-> Absent, scope |-> Absent])

\* lines 419-441
ExchangeFailedPage(e) ==
    Page(500, "OAuth Token Exchange Failed",
         "Failed to exchange authorization code for access token.", ExceptionText(e))

\* What a direct caller of a handler method gets: the value or the exception.
Returned(token) == [Page(0, "returned", "", "") EXCEPT !.token_type = Get(token.token_type, ""),
                                                       !.scope = Get(token.scope, "")]
Raised(type, text) == Page(0, "raised", type, text)

\* A returned value that is not a token dict
ReturnedValue(value) == [ status |-> 0, heading |-> "returned", value |-> value ]

\* Mutant: the refusal to refresh is raised as an unspecific failure.
NoRefreshTokenError_generic == Raised("Exception", "Token refresh failed")

\* oauth_handler.py line 132
NoRefreshTokenError == Raised("ValueError", "No refresh token available")

\* Mutant: the missing-token error reads like an upstream rejection.
NoAccessTokenError_upstream == Raised(UpstreamRejection.type, ExceptionText(UpstreamRejection))

\* oauth_handler.py line 162
NoAccessTokenError ==
    Raised("ValueError", "No access token available. Please authenticate first.")

\* What get_auth_headers() gives a caller, for a handler holding `held`
AuthHeadersOutcome(held) ==
    IF ~Truthy(held) THEN NoAccessTokenError ELSE ReturnedValue(AuthHeaders(held))

-----------------------------------------------------------------------------
(* server.py: the get_github_user_info tool                                *)

\* lines 96-100
ConfigErrorText ==
    "OAuth is not configured. Please set OAUTH_CLIENT_ID and "
    \o "OAUTH_CLIENT_SECRET environment variables. "
    \o "See .env.example for details."

\* json.dumps of a string; the values dumped here hold no character that
\* JSON escapes
JsonString(str) == "\"" \o str \o "\""

\* json.dumps(list, indent=2): the items of a list nested under `pad`
RECURSIVE JsonItems(_, _)
JsonItems(items, pad) ==
    IF Len(items) = 1 THEN pad \o "  " \o JsonString(Head(items)) \o "\n"
    ELSE pad \o "  " \o JsonString(Head(items)) \o ",\n" \o JsonItems(Tail(items), pad)

JsonList(items, pad) ==
    IF items = <<>> THEN "[]" ELSE "[\n" \o JsonItems(items, pad) \o pad \o "]"

\* json.dumps(auth_error, indent=2), line 110
json_dumps(auth_error) ==
    "{\n"
    \o "  \"code\": " \o (IF auth_error.code = -32001 THEN "-32001" ELSE "0") \o ",\n"
    \o "  \"message\": " \o JsonString(auth_error.message) \o ",\n"
    \o "  \"data\": {\n"
    \o "    \"type\": " \o JsonString(auth_error.data.type) \o ",\n"
    \o "    \"grant_type\": " \o JsonString(auth_error.data.grant_type) \o ",\n"
    \o "    \"authorization_url\": " \o JsonString(auth_error.data.authorization_url) \o ",\n"
    \o "    \"token_url\": " \o JsonString(auth_error.data.token_url) \o ",\n"
    \o "    \"scopes\": " \o JsonList(auth_error.data.scopes, "    ") \o ",\n"
    \o "    \"code_challenge_method\": "
    \o JsonString(auth_error.data.code_challenge_method) \o ",\n"
    \o "    \"resource\": " \o JsonString(auth_error.data.resource) \o "\n"
    \o "  }\n"
    \o "}"

\* Mutant: the instructions are raised without the error details.
AuthRequiredText_bare(auth_error, resource) ==
    "OAuth authentication required. Visit /oauth/authorize."

\* lines 113-125
AuthRequiredText(auth_error, resource) ==
    "OAuth authentication required.\n\nAuthorization Error Details:\n"
    \o json_dumps(auth_error)
    \o "\n\nTo authenticate:\n"
    \o "1. Use the authorization_url from the error data above\n"
    \o "2. Complete the OAuth flow with PKCE (code_challenge_method: S256)\n"
    \o "3. Exchange the authorization code for an access token at token_url\n"
    \o "4. Include the resource parameter: " \o resource \o "\n\n"
    \o "Note: This structured error response enables MCP clients to automate the OAuth flow.\n"
    \o "For manual testing, you can use the authorization_url directly or visit /oauth/authorize."

\* api_client.get_user_info(): api_client is the legacy APIClient (server.py
\* line 28), whose method raises at once (api_client.py lines 133-138)
APIClient_get_user_info ==
    [ type |-> "NotImplementedError", upstream |-> FALSE,
      text |-> "This method requires client-managed authentication. "
               \o "Use GitHubAPIClient.get_user_info(token) instead." ]

\* lines 166-169
FetchErrorText(e) == "Error fetching GitHub user info: " \o ExceptionText(e)

-----------------------------------------------------------------------------
(* Initial state: the module globals of server.py after import             *)

Init ==
    /\ settings \in SettingsChoices
    /\ now = 0
    /\ draws = 0
    /\ oauth_sessions = EmptyMap
    /\ access_token = None
    /\ refresh_token = None
    /\ code_verifier_attr = None
    /\ pending_exchanges = <<>>
    /\ pending_refreshes = <<>>
    /\ response = NoResponse
    /\ authorization_urls = EmptyMap
    /\ obtained = EmptyMap
    /\ tool_call_counts = EmptyMap
    /\ api_requests = <<>>

handler_tokens == <<access_token, refresh_token>>

RemoveAt(seq, i) == SubSeq(seq, 1, i - 1) \o SubSeq(seq, i + 1, Len(seq))

-----------------------------------------------------------------------------
(* server.py: routes                                                       *)

\* The instants (in minutes) at which requests arrive: minute 0, two minutes
\* later, and every minute from the expiry of a session stored at minute 0
\* onwards.  The code reads the clock only to compare it with an expires_at
\* that lies SessionTTL after a request, so what matters is the age at which a
\* request meets a session: these instants give the ages 0, 2, 8, 9, 10, 11,
\* i.e. below, at and past the TTL.
RequestInstants == {t \in 0..MaxTime : t \in {0, 2} \/ t >= SessionTTL}

\* Time passes until the instant t of the next request.
Tick(t) ==
    /\ t > now
    /\ now' = t
    /\ UNCHANGED <<settings, draws, oauth_sessions, access_token, refresh_token,
                   code_verifier_attr, pending_exchanges, pending_refreshes, response,
                   authorization_urls, obtained>>
    /\ UNCHANGED client_vars

\* GET /.well-known/oauth-authorization-server
oauth_metadata ==
    /\ UNCHANGED <<settings, now, draws, oauth_sessions, access_token, refresh_token,
                   code_verifier_attr, pending_exchanges, pending_refreshes,
                   authorization_urls, obtained>>
    /\ response' = JSONResponse(get_authorization_metadata)
    /\ UNCHANGED client_vars

\* GET /oauth/authorize
oauth_authorize ==
    /\ draws < MaxAuth
    /\ LET swept == cleanup_expired_sessions(oauth_sessions, now)
           auth  == get_authorization_url(draws + 1)
       IN  /\ draws' = draws + 1
           /\ code_verifier_attr' = auth.code_verifier
           /\ oauth_sessions' = StoreSession(swept, auth.state, NewSession(auth.code_verifier, now))
           /\ authorization_urls' = StoreSession(authorization_urls, auth.state, auth.url)
           /\ obtained' = StoreSession(obtained, auth.state, 0)
           /\ response' = RedirectResponse(auth.url)
    /\ UNCHANGED <<settings, now, access_token, refresh_token, pending_exchanges,
                   pending_refreshes>>
    /\ UNCHANGED client_vars

\* Mutant: the callback pops the session of `state` before it looks at the
\* parameters, so a rejected request consumes it too.
oauth_callback_consuming(code, state, error) ==
    LET swept == cleanup_expired_sessions(oauth_sessions, now)
    IN  /\ oauth_sessions' = PopLeaves(swept, state)
        /\ IF Truthy(error)
           THEN /\ response' = OAuthErrorPage(error)
                /\ UNCHANGED <<pending_exchanges, obtained>>
           ELSE IF ~Truthy(code) \/ ~Truthy(state)
           THEN /\ response' = MissingParamsPage
                /\ UNCHANGED <<pending_exchanges, obtained>>
           ELSE IF ~PopFound(swept, state)
           THEN /\ response' = InvalidSessionPage(state)
                /\ UNCHANGED <<pending_exchanges, obtained>>
           ELSE /\ obtained' = [obtained EXCEPT ![state] = @ + 1]
                /\ pending_exchanges' =
                       Append(pending_exchanges,
                              ExchangeRequest("callback", state, code,
                                              swept[state].code_verifier,
                                              settings.oauth_redirect_uri))
                /\ UNCHANGED response
        /\ UNCHANGED <<settings, now, draws, access_token, refresh_token,
                       code_verifier_attr, pending_refreshes, authorization_urls>>
        /\ UNCHANGED client_vars

\* GET /oauth/callback?code&state&error, up to the await of the token exchange
oauth_callback(code, state, error) ==
    LET swept == cleanup_expired_sessions(oauth_sessions, now)
    IN  /\ IF Truthy(error)
           THEN /\ response' = OAuthErrorPage(error)
                /\ oauth_sessions' = swept
                /\ UNCHANGED <<pending_exchanges, obtained>>
           ELSE IF ~Truthy(code) \/ ~Truthy(state)
           THEN /\ response' = MissingParamsPage
                /\ oauth_sessions' = swept
                /\ UNCHANGED <<pending_exchanges, obtained>>
           ELSE IF ~PopFound(swept, state)
           THEN /\ response' = InvalidSessionPage(state)
                /\ oauth_sessions' = PopLeaves(swept, state)
                /\ UNCHANGED <<pending_exchanges, obtained>>
           ELSE /\ UNCHANGED response
                /\ oauth_sessions' = PopLeaves(swept, state)
                /\ obtained' = [obtained EXCEPT ![state] = @ + 1]
                /\ pending_exchanges' =
                       Append(pending_exchanges,
                              ExchangeRequest("callback", state, code,
                                              swept[state].code_verifier,
                                              settings.oauth_redirect_uri))
        /\ UNCHANGED <<settings, now, draws, access_token, refresh_token,
                       code_verifier_attr, pending_refreshes, authorization_urls>>
        /\ UNCHANGED client_vars

\* fetch_token returns `token` to the i-th suspended exchange: the handler
\* stores the tokens (lines 115-116); a callback then renders the success page.
ExchangeSucceeds(i, token) ==
    /\ i \in 1..Len(pending_exchanges)
    /\ access_token' = ExchangeStoresAccess(token)
    /\ refresh_token' = ExchangeStoresRefresh(token)
    /\ pending_exchanges' = RemoveAt(pending_exchanges, i)
    /\ response' = IF pending_exchanges[i].caller = "callback"
                   THEN SuccessPage(access_token', token)
                   ELSE Returned(token)
    /\ UNCHANGED <<settings, now, draws, oauth_sessions, code_verifier_attr,
                   pending_refreshes, authorization_urls, obtained>>
    /\ UNCHANGED client_vars

\* Mutant: a failed exchange resets the handler's tokens.
ExchangeFails_clears(i, e) ==
    /\ i \in 1..Len(pending_exchanges)
    /\ pending_exchanges' = RemoveAt(pending_exchanges, i)
    /\ access_token' = None
    /\ refresh_token' = None
    /\ response' = IF pending_exchanges[i].caller = "callback"
                   THEN ExchangeFailedPage(e)
                   ELSE Raised(e.type, ExceptionText(e))
    /\ UNCHANGED <<settings, now, draws, oauth_sessions, code_verifier_attr,
                   pending_refreshes, authorization_urls, obtained>>
    /\ UNCHANGED client_vars

\* Mutant: a callback whose exchange failed puts its session back.
ExchangeFails_restores(i, e) ==
    /\ i \in 1..Len(pending_exchanges)
    /\ pending_exchanges' = RemoveAt(pending_exchanges, i)
    /\ oauth_sessions' =
          IF pending_exchanges[i].caller = "callback"
          THEN StoreSession(oauth_sessions, pending_exchanges[i].state,
                            NewSession(pending_exchanges[i].code_verifier, now))
          ELSE oauth_sessions
    /\ response' = IF pending_exchanges[i].caller = "callback"
                   THEN ExchangeFailedPage(e)
                   ELSE Raised(e.type, ExceptionText(e))
    /\ UNCHANGED <<settings, now, draws, access_token, refresh_token,
                   code_verifier_attr, pending_refreshes, authorization_urls,
                   obtained>>
    /\ UNCHANGED client_vars

\* fetch_token raises `e` in the i-th suspended exchange: the handler lets it
\* propagate; a callback catches it (line 419) and renders the failure page.
ExchangeFails(i, e) ==
    /\ i \in 1..Len(pending_exchanges)
    /\ pending_exchanges' = RemoveAt(pending_exchanges, i)
    /\ response' = IF pending_exchanges[i].caller = "callback"
                   THEN ExchangeFailedPage(e)
                   ELSE Raised(e.type, ExceptionText(e))
    /\ UNCHANGED <<settings, now, draws, oauth_sessions, access_token, refresh_token,
                   code_verifier_attr, pending_refreshes, authorization_urls,
                   obtained>>
    /\ UNCHANGED client_vars

\* Query parameters a callback request may carry: request.query_params.get
\* gives None for a missing parameter and "" for an empty one (both fail the
\* truth tests of the handler; the empty value is drawn for `error`).  The
\* last state token is one that no authorize request has issued.
\* The get_github_user_info tool.  The call of api_client.get_user_info raises
\* before anything is awaited, so the tool runs in one step; include_repos
\* and repo_limit are not reached.
get_github_user_info(include_repos) ==
    /\ UNCHANGED <<settings, now, draws, oauth_sessions, access_token, refresh_token,
                   code_verifier_attr, pending_exchanges, pending_refreshes,
                   authorization_urls, obtained>>
    /\ response' =
          IF ~is_oauth_configured
          THEN Raised("ValueError", ConfigErrorText)
          ELSE IF ~is_authenticated(access_token)
          THEN Raised("ValueError",
                      AuthRequiredText(get_authorization_error_response, resource_uri))
          ELSE Raised("ValueError", FetchErrorText(APIClient_get_user_info))
    /\ UNCHANGED client_vars

CallbackCodes == {None, "code_1"}
CallbackStates == {None} \cup {StateTokens[i] : i \in 1..(MaxAuth + 1)}
CallbackErrors == {None, "", "access_denied"}

Next ==
    \/ \E t \in RequestInstants : Tick(t)
    \/ oauth_authorize
    \/ \E code \in CallbackCodes, state \in CallbackStates, error \in CallbackErrors :
            oauth_callback(code, state, error)
    \/ \E i \in 1..MaxAuth, token \in TokenResponses : ExchangeSucceeds(i, token)
    \/ \E i \in 1..MaxAuth, e \in TokenEndpointExceptions : ExchangeFails(i, e)
    \/ \E include_repos \in BOOLEAN : get_github_user_info(include_repos)
    \/ oauth_metadata

Spec == Init /\ [][Next]_vars

\* The awaited fetch_token of a suspended exchange returns or raises, and the
\* event loop then resumes the coroutine that awaits it.
ExchangeCompletes(i) ==
    \/ \E token \in TokenResponses : ExchangeSucceeds(i, token)
    \/ \E e \in TokenEndpointExceptions : ExchangeFails(i, e)

\* The authorization flow alone: the two OAuth routes and the completions of
\* the exchanges they start
CallbackNext ==
    \/ \E t \in RequestInstants : Tick(t)
    \/ oauth_authorize
    \/ \E code \in CallbackCodes, state \in CallbackStates, error \in CallbackErrors :
            oauth_callback(code, state, error)
    \/ \E i \in 1..MaxAuth : ExchangeCompletes(i)

\* The state after import of a server whose OAuth client is configured
ConfiguredInit == Init /\ is_oauth_configured

\* The flow on a configured server, with every upstream call coming to an end
CallbackSpec ==
    /\ ConfiguredInit
    /\ [][CallbackNext]_vars
    /\ WF_vars(\E i \in 1..MaxAuth : ExchangeCompletes(i))

-----------------------------------------------------------------------------
(* OAuthHandler called directly                                            *)

\* await handler.exchange_code_for_token(code, code_verifier): redirect_uri
\* takes its default (line 84)
exchange_code_for_token(code, code_verifier) ==
    /\ Len(pending_exchanges) < MaxPending
    /\ pending_exchanges' =
           Append(pending_exchanges,
                  ExchangeRequest("direct", None, code, code_verifier,
                                  "http://localhost:8080/callback"))
    /\ UNCHANGED <<settings, now, draws, oauth_sessions, access_token, refresh_token,
                   code_verifier_attr, pending_refreshes, response, authorization_urls,
                   obtained>>
    /\ UNCHANGED client_vars

\* await handler.refresh_access_token(), up to the await of refresh_token
refresh_access_token ==
    /\ IF ~Truthy(refresh_token)
       THEN /\ response' = NoRefreshTokenError
            /\ UNCHANGED pending_refreshes
       ELSE /\ Len(pending_refreshes) < MaxPending
            /\ pending_refreshes' = Append(pending_refreshes, RefreshRequest(refresh_token))
            /\ UNCHANGED response
    /\ UNCHANGED <<settings, now, draws, oauth_sessions, access_token, refresh_token,
                   code_verifier_attr, pending_exchanges, authorization_urls, obtained>>
    /\ UNCHANGED client_vars

\* refresh_token returns `token` to the i-th suspended refresh (lines 146-149)
RefreshSucceeds(i, token) ==
    /\ i \in 1..Len(pending_refreshes)
    /\ access_token' = RefreshStoresAccess(token)
    /\ refresh_token' = RefreshStoresRefresh(token, refresh_token)
    /\ pending_refreshes' = RemoveAt(pending_refreshes, i)
    /\ response' = Returned(token)
    /\ UNCHANGED <<settings, now, draws, oauth_sessions, code_verifier_attr,
                   pending_exchanges, authorization_urls, obtained>>
    /\ UNCHANGED client_vars

\* refresh_token raises `e` in the i-th suspended refresh
RefreshFails(i, e) ==
    /\ i \in 1..Len(pending_refreshes)
    /\ pending_refreshes' = RemoveAt(pending_refreshes, i)
    /\ response' = Raised(e.type, ExceptionText(e))
    /\ UNCHANGED <<settings, now, draws, oauth_sessions, access_token, refresh_token,
                   code_verifier_attr, pending_exchanges, authorization_urls, obtained>>
    /\ UNCHANGED client_vars

\* handler.get_auth_headers(): a synchronous check of self.access_token
get_auth_headers ==
    /\ response' = AuthHeadersOutcome(access_token)
    /\ UNCHANGED <<settings, now, draws, oauth_sessions, access_token, refresh_token,
                   code_verifier_attr, pending_exchanges, pending_refreshes,
                   authorization_urls, obtained>>
    /\ UNCHANGED client_vars

\* handler.get_authorization_url(state): the call stores the verifier on the
\* handler (line 68) and returns the tuple
get_authorization_url_called(state) ==
    /\ draws < MaxAuth
    /\ LET auth == get_authorization_url_state(state, draws + 1)
       IN  /\ draws' = draws + 1
           /\ code_verifier_attr' = auth.code_verifier
           /\ response' = ReturnedValue(auth)
    /\ UNCHANGED <<settings, now, oauth_sessions, access_token, refresh_token,
                   pending_exchanges, pending_refreshes, authorization_urls, obtained>>
    /\ UNCHANGED client_vars

\* The state argument of a direct get_authorization_url call
AuthorizeStates == {None, "my_custom_state_123"}

RefreshResponses ==
    [ access_token  : {"tok_123", "gho_16C7e42F2"},
      refresh_token : {Absent, "ref_456", "ref_789"},
      token_type    : {"bearer"},
      scope         : {"read:user"} ]

\* A token response whose access_token is the empty string
EmptyAccessTokenResponse ==
    [ access_token |-> "", refresh_token |-> Absent, token_type |-> "bearer",
      scope |-> "read:user" ]

HandlerNext ==
    \/ \E code \in {"code_1"}, verifier \in {VerifierTokens[1]} :
            exchange_code_for_token(code, verifier)
    \/ \E i \in 1..MaxPending, token \in TokenResponses \cup {EmptyAccessTokenResponse} :
            ExchangeSucceeds(i, token)
    \/ \E i \in 1..MaxPending, e \in TokenEndpointExceptions : ExchangeFails(i, e)
    \/ refresh_access_token
    \/ \E i \in 1..MaxPending, token \in RefreshResponses : RefreshSucceeds(i, token)
    \/ \E i \in 1..MaxPending, e \in TokenEndpointExceptions : RefreshFails(i, e)
    \/ get_auth_headers
    \/ \E state \in AuthorizeStates : get_authorization_url_called(state)

HandlerSpec == Init /\ [][HandlerNext]_vars

-----------------------------------------------------------------------------
(* api_client.py                                                           *)

\* The headers every GitHubAPIClient method builds from its token argument
GitHubHeaders(token) ==
    [ Authorization        |-> "Bearer " \o token,
      Accept               |-> "application/vnd.github+json",
      X_GitHub_Api_Version |-> "2022-11-28",
      User_Agent           |-> "MCP-OAuth-Server/1.0" ]

GitHubCalls == {"get_user_info", "get_user_repos", "make_authenticated_request"}

\* The request a GitHubAPIClient method hands to httpx.AsyncClient(timeout=
\* self.timeout); make_authenticated_request is called with GET /rate_limit
ApiRequest(call, token) ==
    [ call    |-> call,
      method  |-> "GET",
      url     |-> settings.api_base_url \o
                  (CASE call = "get_user_info" -> "/user"
                     [] call = "get_user_repos" -> "/user/repos"
                     [] call = "make_authenticated_request" -> "/rate_limit"),
      headers |-> GitHubHeaders(token),
      timeout |-> settings.api_timeout ]

\* Status codes the GitHub API answers with
ApiStatuses == {200, 401, 403, 500}

\* response.raise_for_status() on a status that is not a success
HTTPStatusError(status) ==
    [ type |-> "HTTPStatusError", upstream |-> TRUE,
      text |-> CASE status = 401 -> "Client error '401 Unauthorized'"
                 [] status = 403 -> "Client error '403 Forbidden'"
                 [] status = 500 -> "Server error '500 Internal Server Error'" ]

\* Mutant: a 401 is left to raise_for_status like any other status.
InvalidTokenError_status ==
    Raised(HTTPStatusError(401).type, ExceptionText(HTTPStatusError(401)))

\* lines 41-42, 74-75, 117-118
InvalidTokenError == Raised("ValueError", "Invalid or expired GitHub token")

\* The outcome of a GitHubAPIClient method whose request got `status`
ApiOutcome(request, status) ==
    IF status = 401 THEN InvalidTokenError
    ELSE IF status \notin 200..299
    THEN Raised(HTTPStatusError(status).type, ExceptionText(HTTPStatusError(status)))
    ELSE ReturnedValue([ json_of |-> request.url ])

\* await GitHubAPIClient().<call>(token), up to the await of the HTTP request
GitHubAPIClient_call(call, token) ==
    /\ Len(api_requests) < MaxPending
    /\ api_requests' = Append(api_requests, ApiRequest(call, token))
    /\ UNCHANGED <<server_vars, response, tool_call_counts>>

\* GitHub answers the i-th suspended request with `status`
ApiResponds(i, status) ==
    /\ i \in 1..Len(api_requests)
    /\ api_requests' = RemoveAt(api_requests, i)
    /\ response' = ApiOutcome(api_requests[i], status)
    /\ UNCHANGED <<server_vars, tool_call_counts>>

\* The i-th suspended request fails in the transport
ApiTransportFails(i, e) ==
    /\ i \in 1..Len(api_requests)
    /\ api_requests' = RemoveAt(api_requests, i)
    /\ response' = Raised(e.type, ExceptionText(e))
    /\ UNCHANGED <<server_vars, tool_call_counts>>

TransportErrors == {ConnectError, ReadTimeout}

\* The legacy APIClient: every method raises at once (lines 133-158)
APIClient_raises(call) ==
    CASE call = "get_user_info" -> APIClient_get_user_info
      [] call = "get_user_repos" ->
            [ type |-> "NotImplementedError", upstream |-> FALSE,
              text |-> "This method requires client-managed authentication. "
                       \o "Use GitHubAPIClient.get_user_repos(token, limit) instead." ]
      [] call = "make_authenticated_request" ->
            [ type |-> "NotImplementedError", upstream |-> FALSE,
              text |-> "This method requires client-managed authentication. "
                       \o "Use GitHubAPIClient.make_authenticated_request(token, ...) instead." ]

\* await APIClient(oauth_handler).<call>(...)
APIClient_call(call) ==
    /\ response' = Raised(APIClient_raises(call).type, ExceptionText(APIClient_raises(call)))
    /\ UNCHANGED <<server_vars, client_vars>>

\* Tokens handed to GitHubAPIClient methods
ApiTokens == {"tok_123"}

ClientNext ==
    \/ \E call \in GitHubCalls, token \in ApiTokens : GitHubAPIClient_call(call, token)
    \/ \E i \in 1..MaxPending, status \in ApiStatuses : ApiResponds(i, status)
    \/ \E i \in 1..MaxPending, e \in TransportErrors : ApiTransportFails(i, e)
    \/ \E call \in GitHubCalls : APIClient_call(call)
    \/ \E code \in {"code_1"}, verifier \in {VerifierTokens[1]} :
            exchange_code_for_token(code, verifier)
    \/ \E i \in 1..MaxPending, token \in TokenResponses : ExchangeSucceeds(i, token)

ClientSpec == Init /\ [][ClientNext]_vars

-----------------------------------------------------------------------------
(* http_endpoints.py                                                       *)

ToolNames == {"get_github_user_info", "analyze_code_with_llm"}

\* _tool_call_counts[name] on the defaultdict(int)
CountOf(counts, name) == IF name \in DOMAIN counts THEN counts[name] ELSE 0

\* sum(counts.values())
RECURSIVE SumValues(_)
SumValues(counts) ==
    IF DOMAIN counts = {} THEN 0
    ELSE LET k == CHOOSE x \in DOMAIN counts : TRUE
         IN  counts[k] + SumValues([j \in DOMAIN counts \ {k} |-> counts[j]])

\* Mutant: the stored dict itself is returned.
dict_alias(counts) == [ alias |-> TRUE, items |-> counts ]

\* dict(_tool_call_counts): a new dict with the same items; `alias` tells
\* whether the object returned is the stored one
dict_copy(counts) == [ alias |-> FALSE, items |-> counts ]

increment_tool_call(tool_name) ==
    /\ SumValues(tool_call_counts) < MaxCalls
    /\ tool_call_counts' =
          StoreSession(tool_call_counts, tool_name, CountOf(tool_call_counts, tool_name) + 1)
    /\ UNCHANGED <<server_vars, response, api_requests>>

get_tool_call_counts ==
    /\ response' = ReturnedValue(dict_copy(tool_call_counts))
    /\ UNCHANGED <<server_vars, client_vars>>

\* Whether the last result is a dict returned by get_tool_call_counts
ReturnedCounts == "value" \in DOMAIN response /\ "items" \in DOMAIN response.value

\* The caller assigns returned[tool_name] = n on the dict it was given
returned_dict_assigned(tool_name, n) ==
    /\ ReturnedCounts
    /\ response' = [response EXCEPT !.value.items = StoreSession(@, tool_name, n)]
    /\ tool_call_counts' =
          IF response.value.alias
          THEN StoreSession(tool_call_counts, tool_name, n)
          ELSE tool_call_counts
    /\ UNCHANGED <<server_vars, api_requests>>

\* GET /metrics; uptime_seconds and timestamp are left out of the document
metrics_endpoint ==
    /\ LET tool_counts == dict_copy(tool_call_counts).items
       IN  response' =
              JSONResponse([ server     |-> settings.server_name,
                             version    |-> settings.server_version,
                             tool_calls |-> [ total   |-> SumValues(tool_counts),
                                              by_tool |-> tool_counts ] ])
    /\ UNCHANGED <<server_vars, client_vars>>

\* The value a caller writes into the dict it was given
AssignedCounts == {99}

MetricsNext ==
    \/ \E tool_name \in ToolNames : increment_tool_call(tool_name)
    \/ get_tool_call_counts
    \/ \E tool_name \in ToolNames, n \in AssignedCounts : returned_dict_assigned(tool_name, n)
    \/ metrics_endpoint

MetricsSpec == Init /\ [][MetricsNext]_vars

-----------------------------------------------------------------------------
(* server.py: the analyze_code_with_llm tool                               *)

\* valid_types, line 201
valid_types ==
    <<"explain", "review", "suggest_improvements", "find_bugs", "security_review">>

\* ', '.join(parts)
RECURSIVE JoinComma(_)
JoinComma(parts) ==
    IF parts = <<>> THEN ""
    ELSE IF Len(parts) = 1 THEN Head(parts)
         ELSE Head(parts) \o ", " \o JoinComma(Tail(parts))

\* analysis_type not in valid_types
InSeq(x, seq) == \E k \in 1..Len(seq) : seq[k] = x

\* Mutant: the bounds 100 and 2000 themselves are refused.
max_tokens_in_range_exclusive(max_tokens) == max_tokens > 100 /\ max_tokens < 2000

\* line 206, negated: the request passes `if max_tokens < 100 or max_tokens > 2000`
max_tokens_in_range(max_tokens) == ~(max_tokens < 100 \/ max_tokens > 2000)

\* analysis_prompts, lines 210-218
analysis_prompts(analysis_type) ==
    CASE analysis_type = "explain" ->
             "Please explain what this code does in clear, simple terms:"
      [] analysis_type = "review" ->
             "Please review this code and provide constructive feedback:"
      [] analysis_type = "suggest_improvements" ->
             "Please suggest improvements for this code:"
      [] analysis_type = "find_bugs" ->
             "Please analyze this code for potential bugs or issues:"
      [] analysis_type = "security_review" ->
             "Please review this code for security vulnerabilities:"

\* The values interpolated into the returned text (lines 219-242); its fixed
\* wording is left out.  The code fence of the prompt, three grave accents,
\* is written ~~~ here.
AnalysisResult(code, analysis_type, max_tokens) ==
    [ analysis_type |-> analysis_type,
      code_length   |-> Len(code),
      full_prompt   |-> analysis_prompts(analysis_type) \o "\n\n~~~\n" \o code \o "\n~~~",
      max_tokens    |-> max_tokens ]

\* lines 197-198, 202-203, 206-207
CodeRequiredError == Raised("ValueError", "'code' parameter is required")
InvalidTypeError ==
    Raised("ValueError", "Invalid analysis_type. Must be one of: " \o JoinComma(valid_types))
MaxTokensError == Raised("ValueError", "max_tokens must be between 100 and 2000")

\* What the tool gives its caller
analyze_outcome(code, analysis_type, max_tokens) ==
    IF code = "" THEN CodeRequiredError
    ELSE IF ~InSeq(analysis_type, valid_types) THEN InvalidTypeError
    ELSE IF ~max_tokens_in_range(max_tokens) THEN MaxTokensError
    ELSE ReturnedValue(AnalysisResult(code, analysis_type, max_tokens))

\* The analyze_code_with_llm tool: the function awaits nothing
analyze_code_with_llm(code, analysis_type, max_tokens) ==
    /\ response' = analyze_outcome(code, analysis_type, max_tokens)
    /\ UNCHANGED server_vars
    /\ UNCHANGED client_vars

\* Arguments of the tool: an empty and a non-empty code; the five analysis
\* types, one that is not listed, one that differs in case only and the empty
\* string; token limits around both bounds.
AnalyzeCodes == {"", "x = 1"}
AnalyzeTypes ==
    {valid_types[k] : k \in 1..Len(valid_types)} \cup {"summarize", "Explain", ""}
AnalyzeMaxTokens == {99, 100, 500, 2000, 2001}

\* The tool on a configured server where authorization flows run
AnalyzeNext ==
    \/ \E code \in AnalyzeCodes, analysis_type \in AnalyzeTypes,
          max_tokens \in AnalyzeMaxTokens :
            analyze_code_with_llm(code, analysis_type, max_tokens)
    \/ oauth_authorize
    \/ \E state \in CallbackStates : oauth_callback("code_1", state, None)
    \/ \E i \in 1..MaxAuth, token \in TokenResponses : ExchangeSucceeds(i, token)

AnalyzeSpec == ConfiguredInit /\ [][AnalyzeNext]_vars

-----------------------------------------------------------------------------
(* Properties                                                              *)

\* A handler step that ran cleanup_expired_sessions
SweepingStep ==
    \/ oauth_authorize
    \/ \E code \in CallbackCodes, state \in CallbackStates, error \in CallbackErrors :
           oauth_callback(code, state, error)

\* The exchanges in flight that were started by a callback for `state`
ExchangesFor(state) ==
    {i \in 1..Len(pending_exchanges) :
        pending_exchanges[i].caller = "callback" /\ pending_exchanges[i].state = state}

\* C1: a session is resolvable at most once.  No state issued by an authorize
\* request is obtained by more than one callback, and a callback that presents
\* code and a state whose session an earlier callback has already obtained gets
\* the invalid-session page and starts no token exchange.
C1_SessionResolvedAtMostOnce ==
    [][ /\ \A s \in DOMAIN obtained' : obtained'[s] <= 1
        /\ \A code \in CallbackCodes, state \in DOMAIN obtained, error \in CallbackErrors :
              ( /\ Truthy(code) /\ ~Truthy(error)
                /\ obtained[state] >= 1
                /\ oauth_callback(code, state, error) )
              => /\ response' = InvalidSessionPage(state)
                 /\ pending_exchanges' = pending_exchanges
                 /\ obtained' = obtained ]_vars

\* C1 witness: after the exchange of the first callback for a state succeeded,
\* a second callback with the same state was answered with the invalid-session page.
C1_Witness ==
    \E s \in DOMAIN obtained :
        /\ obtained[s] = 1
        /\ ExchangesFor(s) = {}
        /\ access_token # None
        /\ response = InvalidSessionPage(s)

\* C2: two callbacks racing on the same state.  While the exchange of one
\* callback for a state is suspended in the upstream call, the session is gone
\* from the store (so the other callback takes the invalid-session branch) and
\* no second exchange for that state is in flight.
C2_OneExchangePerState ==
    \A s \in DOMAIN obtained :
        /\ Cardinality(ExchangesFor(s)) <= 1
        /\ ExchangesFor(s) # {} => s \notin DOMAIN oauth_sessions

\* C2 witness: one callback for s is suspended in the token call, and the
\* concurrent callback for s has been answered with the invalid-session page.
C2_Witness ==
    \E s \in DOMAIN obtained :
        /\ Cardinality(ExchangesFor(s)) = 1
        /\ response = InvalidSessionPage(s)

\* C3 (as claimed): the redirect_uri a callback passes to the token exchange
\* equals the redirect_uri of the authorization URL issued for the same state.
C3_RedirectUriIdentical ==
    \A i \in 1..Len(pending_exchanges) :
        pending_exchanges[i].caller = "callback" =>
            pending_exchanges[i].redirect_uri =
                authorization_urls[pending_exchanges[i].state].redirect_uri

\* C4 (as claimed): refreshes are serialized; no two refresh requests in
\* flight at the same time carry the same refresh token.
C4_NoStaleConcurrentRefresh ==
    \A i, j \in 1..Len(pending_refreshes) :
        i # j => pending_refreshes[i].refresh_token # pending_refreshes[j].refresh_token

\* needle in hay
Contains(hay, needle) ==
    \E i \in 1..(Len(hay) - Len(needle) + 1) :
        SubSeq(hay, i, i + Len(needle) - 1) = needle

\* The texts a response page shows to the browser
PageTexts(r) == {r.heading, r.advice, r.shown, r.token_type, r.scope}

Shows(r, secret) == Truthy(secret) /\ \E t \in PageTexts(r) : Contains(t, secret)

\* C5 (as claimed): no callback response contains the whole access token or
\* the whole refresh token held by the handler.
C5_NoFullTokenInResponse ==
    response.status \in {200, 400, 500} =>
        /\ ~Shows(response, access_token)
        /\ ~Shows(response, refresh_token)

\* C6 (as claimed): the page for a failed token exchange shows only an error
\* string reported by the upstream server, never the text of an exception
\* raised inside the process.
C6_NoInternalExceptionText ==
    response.status = 500 =>
        response.shown \notin {ExceptionText(e) : e \in {x \in TokenEndpointExceptions : ~x.upstream}}

\* Two pages a user (or a client reading the body) can tell apart
Distinguishable(a, b) ==
    a.status # b.status \/ a.heading # b.heading \/ a.advice # b.advice \/ a.shown # b.shown

\* C7: a callback whose `error` parameter has a value (the code tests
\* `if error:`, so an empty value counts as no error), with or without code and
\* state, starts no token exchange, leaves the handler's tokens unchanged and
\* answers with the 400 error page, which differs from the invalid-session page.
C7_ErrorCallback ==
    [][ \A code \in CallbackCodes, state \in CallbackStates, error \in CallbackErrors :
          (Truthy(error) /\ oauth_callback(code, state, error))
          => /\ pending_exchanges' = pending_exchanges
             /\ handler_tokens' = handler_tokens
             /\ obtained' = obtained
             /\ response'.status = 400
             /\ response'.shown = error
             /\ \A s \in CallbackStates : Distinguishable(response', InvalidSessionPage(s)) ]_vars

\* C7 witness: an authenticated server with a pending session has answered a
\* callback carrying error=access_denied.
C7_Witness ==
    /\ response = OAuthErrorPage("access_denied")
    /\ access_token # None
    /\ oauth_sessions # EmptyMap

\* C8: a callback with code and a state that is unknown, already consumed, or
\* whose session has expires_at earlier than the time of the request gets the
\* invalid-session page (status 400, restart advice), starts no exchange and
\* leaves access_token and refresh_token unchanged.
C8_InvalidSessionRecoverable ==
    [][ \A code \in CallbackCodes, state \in CallbackStates, error \in CallbackErrors :
          ( /\ Truthy(code) /\ Truthy(state) /\ ~Truthy(error)
            /\ \/ state \notin DOMAIN oauth_sessions
               \/ oauth_sessions[state].expires_at < now
            /\ oauth_callback(code, state, error) )
          => /\ response' = InvalidSessionPage(state)
             /\ response'.status = 400
             /\ pending_exchanges' = pending_exchanges
             /\ obtained' = obtained
             /\ handler_tokens' = handler_tokens ]_vars

\* C8 witness: a callback presented a state that was issued and never
\* obtained by any callback, i.e. whose session had expired, and was answered
\* with the invalid-session page.
C8_Witness ==
    \E s \in DOMAIN obtained :
        /\ obtained[s] = 0
        /\ s \notin DOMAIN oauth_sessions
        /\ response = InvalidSessionPage(s)

\* C9 (as claimed): a sweep removes every session with expires_at <= now,
\* the one with expires_at = now included.
C9_SweepRemovesAtExpiry ==
    [][ SweepingStep =>
          \A k \in DOMAIN oauth_sessions :
              oauth_sessions[k].expires_at <= now => k \notin DOMAIN oauth_sessions' ]_vars

\* C10: sessions carry the 10-minute TTL; a sweep at created_at + 11 removes
\* the session and a sweep at created_at + 9 does not; a sweep never removes a
\* session whose expires_at is later than now, and leaves it as it was.  (A
\* callback that presents the session's own state consumes it; that is the
\* pop, not the sweep.)
C10_SweepKeepsLiveSessions ==
    [][ \A k \in DOMAIN oauth_sessions :
          LET data == oauth_sessions[k]
              kept == k \in DOMAIN oauth_sessions' /\ oauth_sessions'[k] = data
              SweptNotConsumed ==
                  \/ oauth_authorize
                  \/ \E code \in CallbackCodes, state \in CallbackStates \ {k},
                        error \in CallbackErrors : oauth_callback(code, state, error)
          IN  /\ data.expires_at = data.created_at + 10
              /\ SweptNotConsumed =>
                    /\ data.expires_at > now => kept
                    /\ now = data.created_at + 9 => kept
              /\ SweepingStep =>
                    (now = data.created_at + 11 => k \notin DOMAIN oauth_sessions') ]_vars

\* C10 witness: at minute 11 a session created at minute 0 has been swept
\* (it is gone and no callback obtained it) while a session created 9 minutes
\* ago is still stored.
C10_Witness ==
    /\ now = 11
    /\ \E k \in DOMAIN obtained :
          /\ k \notin DOMAIN oauth_sessions
          /\ obtained[k] = 0
    /\ \E j \in DOMAIN oauth_sessions : oauth_sessions[j].created_at + 9 = now

\* The upstream calls in flight
upstream_calls == <<pending_exchanges, pending_refreshes>>

\* C11: refresh_access_token on a handler that holds no refresh token raises
\* ValueError("No refresh token available"), hands no request to the token
\* endpoint and leaves access_token and refresh_token as they were.
C11_RefreshWithoutRefreshToken ==
    [][ (~Truthy(refresh_token) /\ refresh_access_token)
        => /\ response' = Raised("ValueError", "No refresh token available")
           /\ upstream_calls' = upstream_calls
           /\ handler_tokens' = handler_tokens ]_vars

\* C11 witness: a handler that holds an access token but no refresh token has
\* refused to refresh.
C11_Witness ==
    /\ response = Raised("ValueError", "No refresh token available")
    /\ access_token # None
    /\ refresh_token = None

\* C12: when a refresh succeeds, access_token becomes the response's access
\* token; refresh_token becomes the response's refresh token if the response
\* has one and stays the held one if the response omits it.
C12_RefreshStoresTokens ==
    [][ \A i \in 1..MaxPending, token \in RefreshResponses :
          RefreshSucceeds(i, token)
          => /\ access_token' = token.access_token
             /\ token.refresh_token # Absent => refresh_token' = token.refresh_token
             /\ token.refresh_token = Absent => refresh_token' = refresh_token ]_vars

\* C12 witness: a refresh has returned (no refresh is in flight any more) and
\* the handler holds the rotated refresh token, which only a refresh response
\* carries.
C12_Witness ==
    /\ response.heading = "returned"
    /\ pending_refreshes = <<>>
    /\ refresh_token = "ref_789"
    /\ access_token = "gho_16C7e42F2"

\* C13: when exchange_code_for_token succeeds with a response holding
\* access_token T and refresh_token R, the handler holds T and R,
\* is_authenticated() is true and get_auth_headers() returns exactly
\* {"Authorization": "Bearer T"}.
C13_ExchangeStoresTokens ==
    [][ \A i \in 1..MaxPending, token \in TokenResponses :
          ( /\ token.access_token # Absent /\ token.refresh_token # Absent
            /\ ExchangeSucceeds(i, token) )
          => /\ access_token' = token.access_token
             /\ refresh_token' = token.refresh_token
             /\ is_authenticated(access_token')
             /\ AuthHeadersOutcome(access_token')
                   = ReturnedValue([Authorization |-> "Bearer " \o token.access_token]) ]_vars

\* C13 witness: after an exchange stored tok_123 and ref_456, a call of
\* get_auth_headers returned the Bearer header for tok_123.
C13_Witness ==
    /\ response = ReturnedValue([Authorization |-> "Bearer tok_123"])
    /\ access_token = "tok_123"
    /\ refresh_token = "ref_456"

\* C14: get_auth_headers on a handler that holds no access token raises the
\* "authenticate first" ValueError, starts no upstream call, changes nothing
\* on the handler, and the error differs from every error an upstream call
\* raises.
C14_AuthHeadersPrecondition ==
    [][ (access_token = None /\ get_auth_headers)
        => /\ response' =
                 Raised("ValueError", "No access token available. Please authenticate first.")
           /\ upstream_calls' = upstream_calls
           /\ <<handler_tokens, code_verifier_attr, oauth_sessions>>'
                 = <<handler_tokens, code_verifier_attr, oauth_sessions>>
           /\ \A e \in TokenEndpointExceptions :
                 response' # Raised(e.type, ExceptionText(e)) ]_vars

\* C14 witness: get_auth_headers has raised on a handler without access token
\* while an exchange is still waiting for the token endpoint.
C14_Witness ==
    /\ response = NoAccessTokenError
    /\ access_token = None
    /\ pending_exchanges # <<>>

\* C15: an exception raised by the token endpoint call (an upstream rejection
\* or a network error) propagates out of exchange_code_for_token; the callback
\* answers with the 500 "OAuth Token Exchange Failed" page, not the success
\* page, stores no token and sends no further request.  A callback sends at
\* most one request to the token endpoint.
C15_ExchangeFailurePropagates ==
    [][ /\ \A i \in 1..MaxAuth, e \in TokenEndpointExceptions :
              ( /\ i <= Len(pending_exchanges)
                /\ pending_exchanges[i].caller = "callback"
                /\ ExchangeFails(i, e) )
              => /\ response'.status = 500
                 /\ response'.heading = "OAuth Token Exchange Failed"
                 /\ response'.heading # SuccessPage(access_token, [token_type |-> Absent,
                                                                    scope |-> Absent]).heading
                 /\ handler_tokens' = handler_tokens
                 /\ Len(pending_exchanges') = Len(pending_exchanges) - 1
                 /\ pending_refreshes' = pending_refreshes
        /\ SweepingStep => Len(pending_exchanges') <= Len(pending_exchanges) + 1 ]_vars

\* C15 witness: the only exchange started has failed with an upstream
\* rejection; the failure page is the answer, no call is in flight and the
\* handler holds no token.
C15_Witness ==
    /\ response = ExchangeFailedPage(UpstreamRejection)
    /\ pending_exchanges = <<>>
    /\ access_token = None
    /\ \E s \in DOMAIN obtained : obtained[s] = 1

\* The names of the query parameters of an authorization URL
QueryParameters(url) == DOMAIN url \ {"endpoint"}

\* C16: get_authorization_url returns a URL on the configured authorization
\* endpoint whose query parameters are exactly client_id (the configured one),
\* response_type=code, redirect_uri, scope (the configured scopes joined by
\* blanks), state, code_challenge and code_challenge_method=S256.  The state
\* returned is the state in the URL; it is the caller's state when the caller
\* gave one and a newly generated one otherwise.
C16_AuthorizationUrl ==
    [][ \A state \in AuthorizeStates :
          get_authorization_url_called(state)
          => LET auth == response'.value
                 url  == auth.url
             IN  /\ url.endpoint = settings.oauth_authorization_url
                 /\ QueryParameters(url) =
                        {"client_id", "response_type", "redirect_uri", "scope", "state",
                         "code_challenge", "code_challenge_method"}
                 /\ url.client_id = settings.oauth_client_id
                 /\ url.response_type = "code"
                 /\ url.scope = (IF settings = DefaultSettings
                                  THEN "read:user" ELSE "read:user repo")
                 /\ url.code_challenge_method = "S256"
                 /\ url.code_challenge = create_s256_code_challenge(auth.code_verifier)
                 /\ url.state = auth.state
                 /\ state # None => auth.state = state
                 /\ state = None => auth.state = StateTokens[draws'] ]_vars

\* C16 witness: with two scopes configured, a call that passed its own state
\* has returned a URL carrying that state.
C16_Witness ==
    /\ settings # DefaultSettings
    /\ response.heading = "returned"
    /\ "value" \in DOMAIN response
    /\ "url" \in DOMAIN response.value
    /\ response.value.state = "my_custom_state_123"
    /\ response.value.url.scope = "read:user repo"

\* C17 (as claimed): with the default configuration no request to the token
\* endpoint carries a `resource` parameter.
C17_NoResourceByDefault ==
    settings = DefaultSettings =>
        /\ \A i \in 1..Len(pending_exchanges) : "resource" \notin DOMAIN pending_exchanges[i]
        /\ \A i \in 1..Len(pending_refreshes) : "resource" \notin DOMAIN pending_refreshes[i]

\* C18 (as claimed): while OAuth is not configured no request creates a
\* session, redirects to the authorization endpoint or contacts upstream.
C18_NoFlowWhenUnconfigured ==
    ~is_oauth_configured =>
        /\ oauth_sessions = EmptyMap
        /\ response.status # 307
        /\ upstream_calls = <<<<>>, <<>>>>

\* C19 (as claimed): with OAuth configured and the handler authenticated by a
\* callback exchange, a get_github_user_info invocation returns the user data
\* instead of raising.
C19_ToolReturnsUserData ==
    [][ \A include_repos \in BOOLEAN :
          ( /\ is_oauth_configured
            /\ is_authenticated(access_token)
            /\ get_github_user_info(include_repos) )
          => response'.heading = "returned" ]_vars

\* C20: on a configured handler that is not authenticated, get_github_user_info
\* raises before any API call: nothing is sent upstream, handler and session
\* state stay as they were, and the error text carries the payload of
\* get_authorization_error_response(): code -32001, the message, the
\* authorization and token URLs, every scope, code_challenge_method S256 and
\* the resource.
C20_ToolRequiresAuthentication ==
    [][ \A include_repos \in BOOLEAN :
          ( /\ is_oauth_configured
            /\ ~is_authenticated(access_token)
            /\ get_github_user_info(include_repos) )
          => /\ upstream_calls' = upstream_calls
             /\ <<handler_tokens, code_verifier_attr, oauth_sessions>>'
                   = <<handler_tokens, code_verifier_attr, oauth_sessions>>
             /\ response'.heading = "raised"
             /\ response'.shown # FetchErrorText(APIClient_get_user_info)
             /\ \A part \in
                    { "\"code\": -32001",
                      "\"message\": \"Authentication required\"",
                      "\"authorization_url\": \"" \o settings.oauth_authorization_url \o "\"",
                      "\"token_url\": \"" \o settings.oauth_token_url \o "\"",
                      "\"scopes\": [",
                      "\"read:user\"",
                      "\"repo\"",
                      "\"code_challenge_method\": \"S256\"",
                      "\"resource\": \"" \o settings.api_base_url \o "\"" } :
                    Contains(response'.shown, part) ]_vars

\* C20 witness: with an authorization flow under way (a session is stored, no
\* token yet) the tool has raised the authentication-required error.
C20_Witness ==
    /\ is_oauth_configured
    /\ access_token = None
    /\ oauth_sessions # EmptyMap
    /\ response.heading = "raised"
    /\ Contains(response.shown, "Authorization Error Details:")

\* C21: every pair of generate_pkce_pair has the S256 challenge of its
\* verifier; the verifier stored in the session under state S is the one
\* whose challenge is in the redirect URL that carries S; and the callback for
\* S hands that verifier, not the challenge, to the token endpoint.
C21_PkceBinding ==
    /\ \A i \in 1..Len(VerifierTokens) :
          /\ generate_pkce_pair(i).code_challenge
                = create_s256_code_challenge(generate_pkce_pair(i).code_verifier)
          /\ generate_pkce_pair(i).code_challenge # generate_pkce_pair(i).code_verifier
    /\ \A S \in DOMAIN oauth_sessions :
          /\ authorization_urls[S].state = S
          /\ authorization_urls[S].code_challenge
                = create_s256_code_challenge(oauth_sessions[S].code_verifier)
    /\ \A i \in 1..Len(pending_exchanges) :
          pending_exchanges[i].caller = "callback" =>
             LET url == authorization_urls[pending_exchanges[i].state]
             IN  /\ create_s256_code_challenge(pending_exchanges[i].code_verifier)
                       = url.code_challenge
                 /\ pending_exchanges[i].code_verifier # url.code_challenge

\* C21 witness: the callback for the first state is waiting for the token
\* endpoint with verifier_1 while the session of the second state is stored.
C21_Witness ==
    /\ \E i \in 1..Len(pending_exchanges) :
          /\ pending_exchanges[i].state = StateTokens[1]
          /\ pending_exchanges[i].code_verifier = VerifierTokens[1]
    /\ StateTokens[2] \in DOMAIN oauth_sessions

\* C22: no two stored sessions hold the same code_verifier, and no stored
\* session holds the verifier issued with any other state, whether that
\* state's session is stored, consumed or swept.
C22_VerifierNeverReused ==
    /\ \A a, b \in DOMAIN oauth_sessions :
          a # b => oauth_sessions[a].code_verifier # oauth_sessions[b].code_verifier
    /\ \A a \in DOMAIN oauth_sessions, b \in DOMAIN authorization_urls :
          a # b => authorization_urls[b].code_challenge
                     # create_s256_code_challenge(oauth_sessions[a].code_verifier)

\* C22 witness: a session is stored after the session of an earlier state was
\* consumed by its callback.
C22_Witness ==
    /\ StateTokens[2] \in DOMAIN oauth_sessions
    /\ StateTokens[1] \notin DOMAIN oauth_sessions
    /\ obtained[StateTokens[1]] = 1

\* The fields of a complete session
SessionFields == {"code_verifier", "created_at", "expires_at"}

\* C23: an /oauth/authorize request adds exactly one session, complete
\* (code_verifier, created_at, expires_at), under the state of the redirect
\* URL, with expires_at 10 minutes after created_at, and leaves every other
\* unexpired session as it was.  The store never holds a partial entry.
C23_AuthorizeStoresOneSession ==
    [][ /\ oauth_authorize =>
              LET S == response'.location.state
              IN  /\ S \notin DOMAIN oauth_sessions
                  /\ DOMAIN oauth_sessions' =
                        {k \in DOMAIN oauth_sessions : oauth_sessions[k].expires_at >= now}
                        \cup {S}
                  /\ oauth_sessions'[S].created_at = now
                  /\ oauth_sessions'[S].expires_at = oauth_sessions'[S].created_at + 10
                  /\ oauth_sessions'[S].code_verifier = VerifierTokens[draws']
                  /\ \A k \in DOMAIN oauth_sessions' \ {S} :
                        oauth_sessions'[k] = oauth_sessions[k]
        /\ \A k \in DOMAIN oauth_sessions' : DOMAIN oauth_sessions'[k] = SessionFields ]_vars

\* C23 witness: the second authorize request has stored its session next to
\* the untouched session of the first.
C23_Witness ==
    /\ response.status = 307
    /\ response.location.state = StateTokens[2]
    /\ DOMAIN oauth_sessions = {StateTokens[1], StateTokens[2]}
    /\ oauth_sessions[StateTokens[1]].created_at < oauth_sessions[StateTokens[2]].created_at

\* C29: /oauth/authorize and /oauth/callback sweep first: right after either
\* request, made at time `now`, the store holds no session with expires_at
\* earlier than `now`, and a callback resolves no session whose expires_at is
\* earlier than the time of the callback.
C29_SweepFirst ==
    [][ SweepingStep =>
          /\ \A k \in DOMAIN oauth_sessions' : oauth_sessions'[k].expires_at >= now
          /\ \A k \in DOMAIN obtained :
                obtained'[k] > obtained[k] => oauth_sessions[k].expires_at >= now ]_vars

\* C29 witness: an authorize request at minute 11 or later found the session
\* of the first state expired and swept it before storing its own.
C29_Witness ==
    /\ response.status = 307
    /\ response.location.state = StateTokens[2]
    /\ DOMAIN oauth_sessions = {StateTokens[2]}
    /\ obtained[StateTokens[1]] = 0
    /\ oauth_sessions[StateTokens[2]].created_at = now

\* C24: the metadata document served is a function of the settings alone.  It
\* holds the eight RFC 8414 entries; every list is its setting split at
\* commas, trimmed, without empty entries, in order (the scopes setting
\* "read:user, repo" gives read:user, repo; the default methods give S256);
\* and serving it changes neither the session store nor the handler's tokens.
C24_MetadataFromSettings ==
    [][ (response'.status = 200 /\ "content" \in DOMAIN response' /\ oauth_metadata) =>
          LET doc == response'.content
          IN  /\ DOMAIN doc =
                    {"issuer", "authorization_endpoint", "token_endpoint", "scopes_supported",
                     "response_types_supported", "grant_types_supported",
                     "code_challenge_methods_supported",
                     "token_endpoint_auth_methods_supported"}
              /\ doc.issuer = settings.oauth_issuer
              /\ doc.authorization_endpoint = settings.oauth_authorization_url
              /\ doc.token_endpoint = settings.oauth_token_url
              /\ doc.scopes_supported = (IF settings.oauth_scopes = "read:user, repo"
                                         THEN <<"read:user", "repo">> ELSE <<"read:user">>)
              /\ doc.response_types_supported = <<"code">>
              /\ doc.grant_types_supported = <<"authorization_code", "refresh_token">>
              /\ doc.code_challenge_methods_supported = <<"S256">>
              /\ doc.token_endpoint_auth_methods_supported =
                    <<"client_secret_post", "client_secret_basic">>
              /\ oauth_sessions' = oauth_sessions
              /\ handler_tokens' = handler_tokens ]_vars

\* C24 witness: the document with two scopes has been served while a session
\* is stored and the handler holds a token.
C24_Witness ==
    /\ response.status = 200
    /\ "content" \in DOMAIN response
    /\ response.content.scopes_supported = <<"read:user", "repo">>
    /\ oauth_sessions # EmptyMap
    /\ access_token # None

\* C25 (as claimed): every request in flight to the token endpoint was issued
\* with the configured api_timeout.
C25_UpstreamTimeoutConfigured ==
    /\ \A i \in 1..Len(pending_exchanges) :
          /\ "timeout" \in DOMAIN pending_exchanges[i]
          /\ pending_exchanges[i].timeout = settings.api_timeout
    /\ \A i \in 1..Len(pending_refreshes) :
          /\ "timeout" \in DOMAIN pending_refreshes[i]
          /\ pending_refreshes[i].timeout = settings.api_timeout

\* C30 (as claimed): in every handler state is_authenticated() is true
\* exactly when get_auth_headers() returns instead of raising.
C30_AuthenticatedIffHeaders ==
    is_authenticated(access_token) <=> AuthHeadersOutcome(access_token).heading = "returned"

\* C26: an increment_tool_call(name) raises the count of `name` by one,
\* starting from an absent entry, and touches no other entry; nothing else
\* changes the stored counts, in particular not an assignment to a dict that
\* get_tool_call_counts returned; the dict returned holds the stored counts;
\* and the metrics document has by_tool equal to the stored counts and total
\* equal to their sum.  With the empty store at start, every count is the
\* number of increments for its name and total is the number of increments.
C26_ToolCallCounts ==
    [][ /\ \A name \in ToolNames :
              increment_tool_call(name)
              => /\ DOMAIN tool_call_counts' = DOMAIN tool_call_counts \cup {name}
                 /\ tool_call_counts'[name] =
                       (IF name \in DOMAIN tool_call_counts
                        THEN tool_call_counts[name] ELSE 0) + 1
                 /\ \A other \in DOMAIN tool_call_counts \ {name} :
                       tool_call_counts'[other] = tool_call_counts[other]
        /\ (~ \E name \in ToolNames : increment_tool_call(name))
              => tool_call_counts' = tool_call_counts
        /\ \A name \in DOMAIN tool_call_counts' : tool_call_counts'[name] >= 1
        /\ get_tool_call_counts => response'.value.items = tool_call_counts
        /\ metrics_endpoint
              => /\ response'.content.tool_calls.by_tool = tool_call_counts
                 /\ response'.content.tool_calls.total = SumValues(tool_call_counts)
                 /\ SumValues(tool_call_counts) <= MaxCalls ]_vars

\* C26 witness: after two increments of one tool and one of the other, the
\* metrics document reports a total of 3.
C26_Witness ==
    /\ "content" \in DOMAIN response
    /\ "tool_calls" \in DOMAIN response.content
    /\ response.content.tool_calls.total = 3
    /\ tool_call_counts["get_github_user_info"] = 2
    /\ tool_call_counts["analyze_code_with_llm"] = 1

\* C27 (as claimed): an APIClient method called while the handler holds no
\* access token raises ValueError "Not authenticated"; called on an
\* authenticated handler it returns the upstream JSON.
C27_LegacyClientChecksAuthentication ==
    [][ \A call \in GitHubCalls :
          APIClient_call(call)
          => IF access_token = None
             THEN /\ response'.heading = "raised"
                  /\ response'.advice = "ValueError"
                  /\ response'.shown = "Not authenticated"
             ELSE response'.heading = "returned" ]_vars

\* C28: a GitHubAPIClient call answered with 401 raises ValueError "Invalid
\* or expired GitHub token"; any other non-2xx answer raises the HTTP status
\* error and a network or timeout failure raises the transport error, neither
\* of them a ValueError; in no case is the request sent again.
C28_UpstreamFailureClasses ==
    [][ /\ \A i \in 1..MaxPending, status \in ApiStatuses :
              ApiResponds(i, status)
              => /\ Len(api_requests') = Len(api_requests) - 1
                 /\ status = 401 =>
                       response' = Raised("ValueError", "Invalid or expired GitHub token")
                 /\ (status # 401 /\ status \notin 200..299) =>
                       /\ response'.heading = "raised"
                       /\ response'.advice = "HTTPStatusError"
                 /\ status \in 200..299 => response'.heading = "returned"
        /\ \A i \in 1..MaxPending, e \in TransportErrors :
              ApiTransportFails(i, e)
              => /\ Len(api_requests') = Len(api_requests) - 1
                 /\ response'.heading = "raised"
                 /\ response'.advice \in {"ConnectError", "ReadTimeout"} ]_vars

\* C28 witness: one call has been answered with 401 and raised the token
\* error while another call is still waiting.
C28_Witness ==
    /\ response = InvalidTokenError
    /\ api_requests # <<>>

\* C31: a failed upstream call leaves the handler's tokens alone.  When the
\* token endpoint call of an exchange_code_for_token or of a
\* refresh_access_token raises, access_token and refresh_token are exactly what
\* they were before, so an authenticated handler stays authenticated with the
\* same token and its headers are the same.
C31_FailureKeepsTokens ==
    [][ \A i \in 1..MaxPending, e \in TokenEndpointExceptions :
          (ExchangeFails(i, e) \/ RefreshFails(i, e))
          => /\ access_token' = access_token
             /\ refresh_token' = refresh_token
             /\ is_authenticated(access_token) => is_authenticated(access_token')
             /\ AuthHeadersOutcome(access_token') = AuthHeadersOutcome(access_token)
             /\ response' = Raised(e.type, ExceptionText(e)) ]_vars

\* C31 witness: a handler holding tok_123 and ref_456 has seen an upstream call
\* time out and still holds both; no call is in flight any more.
C31_Witness ==
    /\ response = Raised(ReadTimeout.type, ExceptionText(ReadTimeout))
    /\ access_token = "tok_123"
    /\ refresh_token = "ref_456"
    /\ pending_exchanges = <<>>
    /\ pending_refreshes = <<>>

\* C32: a successful exchange replaces both token fields from its response.
\* When the response carries no refresh_token the handler's refresh token is
\* absent afterwards, whatever it held before, and a refresh_access_token on a
\* handler without refresh token raises "No refresh token available" without
\* handing a request to the token endpoint.
C32_ExchangeReplacesBothTokens ==
    [][ /\ \A i \in 1..MaxPending, token \in TokenResponses :
              ExchangeSucceeds(i, token)
              => /\ access_token' = Get(token.access_token, None)
                 /\ refresh_token' = Get(token.refresh_token, None)
                 /\ token.refresh_token = Absent =>
                        (refresh_token' = None /\ ~Truthy(refresh_token'))
        /\ (refresh_token = None /\ refresh_access_token)
           => /\ response' = NoRefreshTokenError
              /\ pending_refreshes' = pending_refreshes ]_vars

\* C32 witness: a refresh started while the handler held ref_456 is still in
\* flight; since then an exchange without refresh_token has emptied the field
\* and a further refresh_access_token has been refused.
C32_Witness ==
    /\ \E i \in 1..Len(pending_refreshes) : pending_refreshes[i].refresh_token = "ref_456"
    /\ refresh_token = None
    /\ access_token # None
    /\ response = NoRefreshTokenError

\* C33: a rejected callback consumes no session.  A callback answered with the
\* error page (error present) or the missing-parameters page (code or state
\* missing) leaves the session store as the sweep leaves it: every session that
\* has not expired is still there, unchanged, also the one named by the
\* request's state; no exchange is started.  A callback with code and the
\* state of a stored, unexpired session resolves it: it starts the exchange
\* with that session's verifier.
C33_RejectedCallbackKeepsSessions ==
    [][ \A code \in CallbackCodes, state \in CallbackStates, error \in CallbackErrors :
          IF Truthy(error) \/ ~Truthy(code) \/ ~Truthy(state)
          THEN oauth_callback(code, state, error)
               => /\ response'.status = 400
                  /\ oauth_sessions' = cleanup_expired_sessions(oauth_sessions, now)
                  /\ \A s \in DOMAIN oauth_sessions :
                        oauth_sessions[s].expires_at >= now
                        => /\ s \in DOMAIN oauth_sessions'
                           /\ oauth_sessions'[s] = oauth_sessions[s]
                  /\ pending_exchanges' = pending_exchanges
                  /\ obtained' = obtained
          ELSE ( /\ state \in DOMAIN oauth_sessions
                 /\ oauth_sessions[state].expires_at >= now
                 /\ oauth_callback(code, state, error) )
               => /\ obtained'[state] = obtained[state] + 1
                  /\ Len(pending_exchanges') = Len(pending_exchanges) + 1
                  /\ pending_exchanges'[Len(pending_exchanges')].state = state
                  /\ pending_exchanges'[Len(pending_exchanges')].code_verifier
                        = oauth_sessions[state].code_verifier ]_vars

\* C33 witness: a callback without code or state has been rejected; a session
\* no callback has obtained is still stored, while another one, issued
\* earlier, has expired and been swept.
C33_Witness ==
    /\ response = MissingParamsPage
    /\ \E s \in DOMAIN oauth_sessions : obtained[s] = 0
    /\ \E s \in DOMAIN obtained : obtained[s] = 0 /\ s \notin DOMAIN oauth_sessions

\* C34: the callback consumes the session before the exchange and never puts
\* it back.  When the exchange of a callback fails, the session of its state
\* is not in the store and the failure step does not change the store; a
\* repeated callback with code and a state already obtained is answered with
\* the 400 session error and starts no second exchange.
C34_FailedExchangeConsumesSession ==
    [][ /\ \A i \in 1..MaxAuth, e \in TokenEndpointExceptions :
              ( /\ i <= Len(pending_exchanges)
                /\ pending_exchanges[i].caller = "callback"
                /\ ExchangeFails(i, e) )
              => /\ pending_exchanges[i].state \notin DOMAIN oauth_sessions'
                 /\ oauth_sessions' = oauth_sessions
                 /\ obtained'[pending_exchanges[i].state] = 1
        /\ \A code \in CallbackCodes, state \in DOMAIN obtained :
              ( /\ Truthy(code)
                /\ obtained[state] >= 1
                /\ ExchangesFor(state) = {}
                /\ oauth_callback(code, state, None) )
              => /\ response'.status = 400
                 /\ response'.shown = "Invalid or expired session"
                 /\ ExchangesFor(state)' = {}
                 /\ Len(pending_exchanges') = Len(pending_exchanges) ]_vars

\* C34 witness: the only callback that obtained a session has finished
\* without a token being stored, and a repeated callback with its state has
\* been answered with the session error.
C34_Witness ==
    \E s \in DOMAIN obtained :
        /\ draws = 1
        /\ obtained[s] = 1
        /\ pending_exchanges = <<>>
        /\ handler_tokens = <<None, None>>
        /\ response = InvalidSessionPage(s)

\* C35: every callback ends with exactly one response, whose status tells the
\* outcome.  A callback with error, without code or state, or whose state has
\* no live session is answered at once with 400 and starts no exchange; any
\* other callback answers nothing yet and starts exactly one exchange; that
\* exchange is answered once, with 200 when the token call returns and with
\* 500 when it raises; and every exchange started is eventually answered
\* (exchanges leave pending_exchanges only by being answered).
C35_CallbackResponds ==
    /\ [][ /\ \A code \in CallbackCodes, state \in CallbackStates, error \in CallbackErrors :
                IF \/ Truthy(error) \/ ~Truthy(code) \/ ~Truthy(state)
                   \/ state \notin DOMAIN oauth_sessions
                   \/ oauth_sessions[state].expires_at < now
                THEN oauth_callback(code, state, error)
                     => /\ response'.status = 400
                        /\ pending_exchanges' = pending_exchanges
                ELSE oauth_callback(code, state, error)
                     => /\ response' = response
                        /\ Len(pending_exchanges') = Len(pending_exchanges) + 1
            /\ \A i \in 1..Len(pending_exchanges) :
                  pending_exchanges[i].caller = "callback"
                  => /\ \A token \in TokenResponses :
                           ExchangeSucceeds(i, token)
                           => /\ response'.status = 200
                              /\ pending_exchanges' = RemoveAt(pending_exchanges, i)
                     /\ \A e \in TokenEndpointExceptions :
                           ExchangeFails(i, e)
                           => /\ response'.status = 500
                              /\ pending_exchanges' = RemoveAt(pending_exchanges, i) ]_vars
    /\ (pending_exchanges # <<>>) ~> (pending_exchanges = <<>>)

\* C35 witness: every authorization attempt allowed has been through its
\* callback and its exchange, and the last answer is the 200 success page.
C35_Witness ==
    /\ draws = MaxAuth
    /\ \A s \in DOMAIN obtained : obtained[s] = 1
    /\ pending_exchanges = <<>>
    /\ response.status = 200
    /\ response.heading = "OAuth Authorization Successful"

\* C36: the process holds one token set, that of the exchange that completed
\* last.  Whenever an exchange completes, for whichever state and in whichever
\* order among the exchanges in flight, access_token and refresh_token both
\* become the values of that exchange's response (absent ones become None);
\* and no other step of the server changes either field.  So the two fields
\* are never taken from two different responses.
C36_SingleTokenSet ==
    [][ /\ \A i \in 1..Len(pending_exchanges), token \in TokenResponses :
              ExchangeSucceeds(i, token)
              => handler_tokens' = <<Get(token.access_token, None),
                                     Get(token.refresh_token, None)>>
        /\ handler_tokens' # handler_tokens
           => \E i \in 1..Len(pending_exchanges), token \in TokenResponses :
                 ExchangeSucceeds(i, token) ]_vars

\* C36 witness: two authorization attempts have both completed their
\* exchanges; the handler holds the access token of the response just shown
\* and no refresh token, as that response carried none.
C36_Witness ==
    /\ draws = 2
    /\ \A s \in DOMAIN obtained : obtained[s] = 1
    /\ pending_exchanges = <<>>
    /\ response.status = 200
    /\ access_token = "gho_16C7e42F2"
    /\ response.shown = MaskedToken(access_token)
    /\ refresh_token = None

\* C37: analyze_code_with_llm accepts a request exactly when code is not
\* empty, analysis_type is one of the five listed types and
\* 100 <= max_tokens <= 2000, both bounds included.  A refused request raises
\* the ValueError of the first check it fails, in the order code, analysis_type,
\* max_tokens.  An accepted one returns the text for its arguments.  In every
\* case the session store, the handler's tokens and the calls in flight are
\* unchanged.
C37_AnalyzeValidation ==
    [][ \A code \in AnalyzeCodes, analysis_type \in AnalyzeTypes,
           max_tokens \in AnalyzeMaxTokens :
          analyze_code_with_llm(code, analysis_type, max_tokens)
          => LET listed == analysis_type \in {"explain", "review", "suggest_improvements",
                                              "find_bugs", "security_review"}
                 fits   == 100 <= max_tokens /\ max_tokens <= 2000
             IN  /\ response'.heading = "returned" <=> (code # "" /\ listed /\ fits)
                 /\ response'.heading \in {"returned", "raised"}
                 /\ response'.heading = "raised"
                    => /\ response'.advice = "ValueError"
                       /\ response'.shown =
                             IF code = "" THEN "'code' parameter is required"
                             ELSE IF ~listed
                             THEN "Invalid analysis_type. Must be one of: explain, review, "
                                  \o "suggest_improvements, find_bugs, security_review"
                             ELSE "max_tokens must be between 100 and 2000"
                 /\ response'.heading = "returned"
                    => /\ response'.value.analysis_type = analysis_type
                       /\ response'.value.max_tokens = max_tokens
                       /\ response'.value.code_length = Len(code)
                 /\ oauth_sessions' = oauth_sessions
                 /\ handler_tokens' = handler_tokens
                 /\ upstream_calls' = upstream_calls ]_vars

\* C37 witness: on a server that holds a token and a stored session, a request
\* at the upper bound, max_tokens = 2000, has been accepted.
C37_Witness ==
    /\ response.heading = "returned"
    /\ "value" \in DOMAIN response
    /\ "max_tokens" \in DOMAIN response.value
    /\ response.value.max_tokens = 2000
    /\ response.value.analysis_type = "security_review"
    /\ oauth_sessions # EmptyMap
    /\ access_token # None
====
